---------------------------- MODULE Spec2Model ----------------------------
(***************************************************************************)
(* Verification model of the example scripts of the gallery:               *)
(*   - plot_compare_reduction       (grid search, reshape, joblib cache)    *)
(*   - plot_rbm_logistic_classification (nudge_dataset, train_test_split)   *)
(*   - plot_missing_values          (missing_samples mask)                  *)
(*   - plot_bayesian_ridge          (relevant_features)                     *)
(*   - hetero_feature_union         (ItemSelector, SubjectBodyExtractor)    *)
(*   - plot_digits_classification_exercise (train / test slices)            *)
(* Each script is a sequential program; its position is `pc`.  Every       *)
(* script has its own specification (SpecGrid, SpecRBM, ...); the          *)
(* variables of the other scripts stay at their idle value.  SpecJobs is   *)
(* the grid search with each fit split into its dispatch and its return,   *)
(* SpecScale the 0-1 scaling of the RBM script on its own, SpecUnion the   *)
(* extractor followed by the FeatureUnion.                                 *)
(***************************************************************************)
EXTENDS Integers, Sequences, FiniteSets, TLC

VARIABLES
    pc,            \* position of the running script
    oracle,        \* grid: accuracy each parameter setting reaches on digits
    cand,          \* grid: index of the candidate being evaluated
    fold,          \* grid: index of the cv split being evaluated
    cachedir,      \* grid: state of the mkdtemp() directory
    cache,         \* grid: keys stored by joblib.Memory under cachedir
    trace,         \* grid: the fit requests of both searches, in order
    cv_results,    \* grid: grid.cv_results_['mean_test_score']
    mean_scores,   \* grid: the array that is zipped with reducer_labels
    digits,        \* rbm: the loaded data set, [data, target]
    X,             \* rbm: the script's X (rows are flattened 8x8 images)
    Y,             \* rbm: the script's Y
    ind_train,     \* rbm: rows of X that train_test_split puts in X_train
    ind_test,      \* rbm: rows of X that train_test_split puts in X_test
    X_full,            \* missing values: the complete data set
    missing_samples,   \* missing values: boolean mask over the lines
    missing_features,  \* missing values: the feature blanked in each line
    X_missing,         \* missing values: the data set with the markers
    w,                 \* bayesian ridge: the ground-truth weights
    relevant_features, \* bayesian ridge: np.random.randint(0, n_features, 10)
    next_i,            \* bayesian ridge: position of the assignment loop
    selector,          \* feature union: the ItemSelector object
    ctor_key,          \* feature union: the key given to ItemSelector(key)
    n_fits,            \* feature union: number of calls of selector.fit
    data_dict,         \* feature union: the argument of selector.transform
    selected,          \* feature union: what selector.transform returned
    posts,             \* feature union: the argument of the extractor
    features,          \* feature union: what the extractor returned
    running,           \* grid: the (candidate, split) tasks Parallel has in flight
    X_scaled,          \* rbm: the X the script rebinds by the 0-1 scaling
    union_out,         \* feature union: the weighted blocks FeatureUnion stacks
    X_digits,          \* digits exercise: digits.data, one entry per sample
    y_digits,          \* digits exercise: digits.target
    X_train,           \* digits exercise: X_digits[:int(.9 * n_samples)]
    y_train,           \* digits exercise: y_digits[:int(.9 * n_samples)]
    X_test,            \* digits exercise: X_digits[int(.9 * n_samples):]
    y_test             \* digits exercise: y_digits[int(.9 * n_samples):]

gridVars == <<oracle, cand, fold, cachedir, cache, trace, cv_results,
              mean_scores>>

rbmVars == <<digits, X, Y, ind_train, ind_test>>

missingVars == <<X_full, missing_samples, missing_features, X_missing>>

bayesVars == <<w, relevant_features, next_i>>

selectorVars == <<selector, ctor_key, n_fits, data_dict, selected>>

extractorVars == <<posts, features>>

jobsVars == <<running>>

scaleVars == <<X_scaled>>

unionVars == <<union_out>>

exerciseVars == <<X_digits, y_digits, X_train, y_train, X_test, y_test>>

vars == <<pc, gridVars, rbmVars, missingVars, bayesVars, selectorVars,
          extractorVars, jobsVars, scaleVars, unionVars, exerciseVars>>

notGridVars == <<rbmVars, missingVars, bayesVars, selectorVars,
                 extractorVars, jobsVars, scaleVars, unionVars,
                 exerciseVars>>

notRbmVars == <<gridVars, missingVars, bayesVars, selectorVars,
                extractorVars, jobsVars, scaleVars, unionVars,
                exerciseVars>>

notMissingVars == <<gridVars, rbmVars, bayesVars, selectorVars,
                    extractorVars, jobsVars, scaleVars, unionVars,
                    exerciseVars>>

notBayesVars == <<gridVars, rbmVars, missingVars, selectorVars,
                  extractorVars, jobsVars, scaleVars, unionVars,
                  exerciseVars>>

notSelectorVars == <<gridVars, rbmVars, missingVars, bayesVars,
                     extractorVars, jobsVars, scaleVars, unionVars,
                     exerciseVars>>

notExtractorVars == <<gridVars, rbmVars, missingVars, bayesVars,
                      selectorVars, jobsVars, scaleVars, unionVars,
                      exerciseVars>>

\* The value of the variables of a script that is not running.
IdleGrid ==
    /\ oracle = <<>> /\ cand = 0 /\ fold = 0 /\ cachedir = "none"
    /\ cache = {} /\ trace = <<>> /\ cv_results = <<>> /\ mean_scores = <<>>

IdleRBM ==
    /\ digits = <<>> /\ X = <<>> /\ Y = <<>>
    /\ ind_train = {} /\ ind_test = {}

IdleMissing ==
    /\ X_full = <<>> /\ missing_samples = <<>>
    /\ missing_features = <<>> /\ X_missing = <<>>

IdleBayes ==
    /\ w = <<>> /\ relevant_features = <<>> /\ next_i = 0

IdleSelector ==
    /\ selector = <<>> /\ ctor_key = "" /\ n_fits = 0
    /\ data_dict = <<>> /\ selected = <<>>

IdleExtractor ==
    /\ posts = <<>> /\ features = <<>>

IdleJobs ==
    /\ running = {}

IdleScale ==
    /\ X_scaled = <<>>

IdleUnion ==
    /\ union_out = <<>>

IdleExercise ==
    /\ X_digits = <<>> /\ y_digits = <<>> /\ X_train = <<>>
    /\ y_train = <<>> /\ X_test = <<>> /\ y_test = <<>>

(***************************************************************************)
(* Generic helpers                                                         *)
(***************************************************************************)
SetMax(S) == CHOOSE m \in S : \A x \in S : x <= m

Range(s) == {s[i] : i \in DOMAIN s}

\* The subsets of S with at most k elements.
RECURSIVE SubsetsUpTo(_, _)
SubsetsUpTo(S, k) ==
    IF k = 0 THEN {{}}
    ELSE LET prev == SubsetsUpTo(S, k - 1)
         IN  prev \cup {s \cup {x} : s \in prev, x \in S}

(***************************************************************************)
(* plot_compare_reduction: the parameter grid                              *)
(***************************************************************************)
N_FEATURES_OPTIONS == <<2, 4, 8>>

C_OPTIONS == <<1, 10, 100, 1000>>

\* The two dicts of param_grid with their keys in sorted order:
\* 'classify__C' < 'reduce_dim' < 'reduce_dim__k' / 'reduce_dim__n_components'.
\* Variant of param_grid whose first dict lists PCA(iterated_power=7) only.
param_grid_one_reducer ==
    << [classify__C |-> C_OPTIONS,
        reduce_dim  |-> <<"PCA(iterated_power=7)">>,
        nested      |-> "n_components",
        values      |-> N_FEATURES_OPTIONS],
       [classify__C |-> C_OPTIONS,
        reduce_dim  |-> <<"SelectKBest(chi2)">>,
        nested      |-> "k",
        values      |-> N_FEATURES_OPTIONS] >>

param_grid ==
    << [classify__C |-> C_OPTIONS,
        reduce_dim  |-> <<"PCA(iterated_power=7)", "NMF()">>,
        nested      |-> "n_components",
        values      |-> N_FEATURES_OPTIONS],
       [classify__C |-> C_OPTIONS,
        reduce_dim  |-> <<"SelectKBest(chi2)">>,
        nested      |-> "k",
        values      |-> N_FEATURES_OPTIONS] >>

reducer_labels == <<"PCA", "NMF", "KBest(chi2)">>

\* The reducer each label of the bar chart stands for.
ReducerOf(label) ==
    CASE label = "PCA"         -> "PCA(iterated_power=7)"
      [] label = "NMF"         -> "NMF()"
      [] label = "KBest(chi2)" -> "SelectKBest(chi2)"

\* itertools.product over the sorted items of one dict: the last key
\* varies fastest.
GridOfDict(d) ==
    LET lc == Len(d.classify__C)
        lr == Len(d.reduce_dim)
        lv == Len(d.values)
    IN  [i \in 1..(lc * lr * lv) |->
            [classify__C |-> d.classify__C[((i - 1) \div (lr * lv)) + 1],
             reduce_dim  |-> d.reduce_dim[(((i - 1) \div lv) % lr) + 1],
             nested      |-> d.nested,
             value       |-> d.values[((i - 1) % lv) + 1]]]

\* ParameterGrid.__iter__: the dicts of the list one after the other.
RECURSIVE ParameterGrid(_)
ParameterGrid(grid) ==
    IF grid = <<>> THEN <<>>
    ELSE GridOfDict(Head(grid)) \o ParameterGrid(Tail(grid))

candidate_params == ParameterGrid(param_grid)

n_candidates == Len(candidate_params)

ParamSet == Range(candidate_params)

(***************************************************************************)
(* plot_compare_reduction: cross-validation splits and the pipeline        *)
(***************************************************************************)
cv == 3

\* Number of samples of the data set the splits are taken from.
NumSamples == 6

AllSamples == 1..NumSamples

\* The cv=3 splits, as consecutive blocks of samples: the first n % k folds
\* have n // k + 1 samples, the others n // k.  (The stratification by
\* class of the real splitter is left out; what the cache sees is that the
\* training sets of the folds differ from each other and from the whole
\* data set.)
FoldSize(f) == (NumSamples \div cv) + (IF f <= NumSamples % cv THEN 1 ELSE 0)

RECURSIVE FoldStart(_)
FoldStart(f) == IF f = 1 THEN 0 ELSE FoldStart(f - 1) + FoldSize(f - 1)

TestIdx(f) == (FoldStart(f) + 1)..(FoldStart(f) + FoldSize(f))

TrainIdx(f) == AllSamples \ TestIdx(f)

\* pipe = Pipeline([('reduce_dim', PCA()), ('classify', LinearSVC())]): an
\* estimator is its class as written and the one parameter set on it.
initial_pipe ==
    [reduce_dim |-> [cls |-> "PCA()", name |-> "none", value |-> 0],
     classify   |-> [cls |-> "LinearSVC", C |-> 1]]

\* The constructor parameters set_params accepts on each reducer.
ParamsOf(cls) ==
    CASE cls = "PCA()"                 -> {"n_components", "iterated_power"}
      [] cls = "PCA(iterated_power=7)" -> {"n_components", "iterated_power"}
      [] cls = "NMF()"                 -> {"n_components"}
      [] cls = "SelectKBest(chi2)"     -> {"k", "score_func"}

\* Estimator.set_params(name=value)
SetNested(est, name, value) == [est EXCEPT !.name = name, !.value = value]

\* Variant of SetParams that sets the nested parameter on the step of the
\* pipeline before the step is replaced.
SetParamsNestedFirst(p) ==
    LET nested   == [initial_pipe EXCEPT !.reduce_dim =
                        SetNested(initial_pipe.reduce_dim, p.nested, p.value)]
        replaced == [nested EXCEPT !.reduce_dim =
                        [cls |-> p.reduce_dim, name |-> "none", value |-> 0]]
    IN  [replaced EXCEPT !.classify.C = p.classify__C]

\* clone(pipe).set_params(**params): the steps named in params are replaced
\* first, then the nested parameters are set on the steps.
SetParams(p) ==
    LET replaced == [initial_pipe EXCEPT !.reduce_dim =
                        [cls |-> p.reduce_dim, name |-> "none", value |-> 0]]
        nested   == [replaced EXCEPT !.reduce_dim =
                        SetNested(replaced.reduce_dim, p.nested, p.value)]
    IN  [nested EXCEPT !.classify.C = p.classify__C]

\* Variant of CacheKey that hashes the whole pipeline, classifier included.
CacheKeyWholePipeline(pipe, train) == [transformer |-> pipe, X |-> train]

\* Variant of CacheKey that hashes the transformer but not the data.
CacheKeyTransformerOnly(pipe, train) ==
    [transformer |-> pipe.reduce_dim, X |-> {}]

\* The arguments joblib hashes for _fit_transform_one(transformer, None, X, y):
\* the cloned transformer with its parameters and the training data.
CacheKey(pipe, train) == [transformer |-> pipe.reduce_dim, X |-> train]

\* _fit_transform_one(transformer, None, X, y): the transformed training
\* data handed to the classifier, named by the transformer that was fitted
\* and the samples it was fitted on.
fit_transform(transformer, train) == [fitted |-> transformer, on |-> train]

\* What memory returns for a key: the result stored by the request that
\* computed it.
Loaded(key) ==
    LET i == CHOOSE j \in DOMAIN trace :
                 /\ trace[j].search = "cached"
                 /\ trace[j].kind = "Calling"
                 /\ trace[j].key = key
    IN  trace[i].Xt

\* Variant of PipelineFit whose memory never stores a fitted transformer.
PipelineFitNoStore(search, pipe, train, c, f) ==
    LET key == CacheKey(pipe, train)
        hit == search = "cached" /\ key \in cache
    IN  /\ trace' = Append(trace,
                [search |-> search, cand |-> c, fold |-> f,
                 kind   |-> IF hit THEN "cache loaded" ELSE "Calling",
                 key    |-> key,
                 Xt     |-> IF hit THEN Loaded(key)
                                   ELSE fit_transform(pipe.reduce_dim, train),
                 C      |-> pipe.classify.C])
        /\ cache' = cache

\* One Pipeline.fit on the training samples `train`.  With memory, the
\* transformer is fitted only when its key is not in the cache.
PipelineFit(search, pipe, train, c, f) ==
    LET key == CacheKey(pipe, train)
        hit == search = "cached" /\ key \in cache
    IN  /\ trace' = Append(trace,
                [search |-> search, cand |-> c, fold |-> f,
                 kind   |-> IF hit THEN "cache loaded" ELSE "Calling",
                 key    |-> key,
                 Xt     |-> IF hit THEN Loaded(key)
                                   ELSE fit_transform(pipe.reduce_dim, train),
                 C      |-> pipe.classify.C])
        /\ cache' = IF search = "cached" THEN cache \cup {key} ELSE cache

\* The search a position of the script belongs to.
SearchOf(p) == IF p \in {"cached_fit", "cached_refit"} THEN "cached" ELSE "plain"

\* best_index_: the first candidate with the highest mean test score.
BestIndex(scores) ==
    CHOOSE i \in DOMAIN scores :
        /\ \A j \in DOMAIN scores : scores[j] <= scores[i]
        /\ \A j \in DOMAIN scores : j < i => scores[j] < scores[i]

(***************************************************************************)
(* plot_compare_reduction: reshape and max                                 *)
(***************************************************************************)
\* numpy reshape(a, -1, c) of a flat C-ordered array followed by
\* max(axis=0): entry [r][n] is the maximum over the first axis.
ReshapeMax(flat, a, c) ==
    LET b == Len(flat) \div (a * c)
        At(i, r, n) == flat[(i - 1) * (b * c) + (r - 1) * c + n]
    IN  [r \in 1..b |-> [n \in 1..c |-> SetMax({At(i, r, n) : i \in 1..a})]]

\* zip(reducer_labels, mean_scores): pairs up to the shorter length.
Zip(labels, rows) ==
    [i \in 1..(IF Len(labels) < Len(rows) THEN Len(labels) ELSE Len(rows)) |->
        [label |-> labels[i], reducer_scores |-> rows[i]]]

(***************************************************************************)
(* plot_compare_reduction: the script                                      *)
(***************************************************************************)
\* Bound on the number of parameter settings with a high accuracy.
MaxHot == 1

\* The accuracies the script can observe: 1 for the settings in `hot`.
OracleOf(hot) == [p \in ParamSet |-> IF p \in hot THEN 1 ELSE 0]

InitGrid ==
    /\ pc = "grid_fit"
    /\ \E hot \in SubsetsUpTo(ParamSet, MaxHot) : oracle = OracleOf(hot)
    /\ cand = 1
    /\ fold = 1
    /\ cachedir = "none"
    /\ cache = {}
    /\ trace = <<>>
    /\ cv_results = <<>>
    /\ mean_scores = <<>>
    /\ IdleRBM /\ IdleMissing /\ IdleBayes /\ IdleSelector /\ IdleExtractor
    /\ IdleExercise /\ IdleUnion /\ IdleScale /\ IdleJobs

\* GridSearchCV.fit, one (candidate, split) of product(candidates, splits).
FitCandidate ==
    /\ pc \in {"grid_fit", "cached_fit"}
    /\ PipelineFit(SearchOf(pc), SetParams(candidate_params[cand]),
                   TrainIdx(fold), cand, fold)
    /\ IF fold < cv
       THEN /\ fold' = fold + 1
            /\ UNCHANGED <<cand, pc, cv_results>>
       ELSE IF cand < n_candidates
            THEN /\ fold' = 1
                 /\ cand' = cand + 1
                 /\ UNCHANGED <<pc, cv_results>>
            ELSE /\ cv_results' = [i \in 1..n_candidates |->
                                      oracle[candidate_params[i]]]
                 /\ pc' = IF pc = "grid_fit" THEN "grid_refit"
                                             ELSE "cached_refit"
                 /\ UNCHANGED <<cand, fold>>
    /\ UNCHANGED <<oracle, cachedir, mean_scores>>
    /\ UNCHANGED notGridVars

\* Variant of RefitSamples that refits on the training part of split 1.
RefitSamplesFirstSplit == TrainIdx(1)

\* best_estimator_.fit(X, y): the samples the refit is trained on.
RefitSamples == AllSamples

\* GridSearchCV.fit, refit=True: the best candidate on the whole data.
Refit ==
    /\ pc \in {"grid_refit", "cached_refit"}
    /\ PipelineFit(SearchOf(pc),
                   SetParams(candidate_params[BestIndex(cv_results)]),
                   RefitSamples, BestIndex(cv_results), 0)
    /\ pc' = IF pc = "grid_refit" THEN "reshape" ELSE "rmtree"
    /\ UNCHANGED <<oracle, cand, fold, cachedir, cv_results, mean_scores>>
    /\ UNCHANGED notGridVars

\* mean_scores.reshape(len(C_OPTIONS), -1, len(N_FEATURES_OPTIONS)).max(axis=0)
MeanScores ==
    /\ pc = "reshape"
    /\ mean_scores' = ReshapeMax(cv_results, Len(C_OPTIONS),
                                 Len(N_FEATURES_OPTIONS))
    /\ pc' = "mkdtemp"
    /\ UNCHANGED <<oracle, cand, fold, cachedir, cache, trace, cv_results>>
    /\ UNCHANGED notGridVars

\* cachedir = mkdtemp(); the second GridSearchCV starts from the first
\* candidate.
Mkdtemp ==
    /\ pc = "mkdtemp"
    /\ cachedir' = "exists"
    /\ cand' = 1
    /\ fold' = 1
    /\ pc' = "cached_fit"
    /\ UNCHANGED <<oracle, cache, trace, cv_results, mean_scores>>
    /\ UNCHANGED notGridVars

\* rmtree(cachedir)
Rmtree ==
    /\ pc = "rmtree"
    /\ cachedir' = "deleted"
    /\ cache' = {}
    /\ pc' = "done"
    /\ UNCHANGED <<oracle, cand, fold, trace, cv_results, mean_scores>>
    /\ UNCHANGED notGridVars

\* grid.fit raises: the exception is not caught and the script exits.
FitRaises ==
    /\ pc \in {"grid_fit", "grid_refit", "cached_fit", "cached_refit"}
    /\ pc' = "raised"
    /\ UNCHANGED gridVars
    /\ UNCHANGED notGridVars

NextGrid ==
    \/ FitCandidate
    \/ Refit
    \/ MeanScores
    \/ Mkdtemp
    \/ Rmtree
    \/ FitRaises

SpecGrid == InitGrid /\ [][NextGrid]_vars

(***************************************************************************)
(* plot_compare_reduction: properties                                      *)
(***************************************************************************)
\* The parameter settings of one reducer with one number of features.
SettingsOf(reducer, n) ==
    {p \in ParamSet : p.reduce_dim = reducer /\ p.value = n}

\* C1: after reshape and max(axis=0), the row zipped with each label of
\* reducer_labels holds, for every entry of N_FEATURES_OPTIONS, the maximum
\* over all C of the mean test score of exactly that reducer.
C1_RowHoldsBestOfItsReducer ==
    mean_scores # <<>> =>
        \A i \in DOMAIN Zip(reducer_labels, mean_scores) :
            \A n \in DOMAIN N_FEATURES_OPTIONS :
                Zip(reducer_labels, mean_scores)[i].reducer_scores[n] =
                    SetMax({oracle[p] :
                            p \in SettingsOf(ReducerOf(reducer_labels[i]),
                                             N_FEATURES_OPTIONS[n])})

\* The fit requests of the cached search on a cross-validation split.
CachedFoldFits ==
    {i \in DOMAIN trace : trace[i].search = "cached" /\ trace[i].fold # 0}

\* C2: in the cached search the transformer of a (reducer configuration,
\* training fold) is fitted only while the first value of C is evaluated;
\* every other value of C loads it from the cache, and it is never fitted
\* a second time.
C2_FitOnlyAtFirstC ==
    /\ \A i \in CachedFoldFits :
          trace[i].kind = "Calling" <=> trace[i].C = C_OPTIONS[1]
    /\ LET calls == {i \in CachedFoldFits : trace[i].kind = "Calling"}
       IN  Cardinality({trace[i].key : i \in calls}) = Cardinality(calls)

\* C2 witness: the cached search is over and a later value of C has loaded
\* a transformer that the first value of C had fitted.
C2_Witness ==
    /\ pc = "cached_refit"
    /\ \E i \in CachedFoldFits :
          /\ trace[i].kind = "Calling" /\ trace[i].C = C_OPTIONS[1]
          /\ \E j \in CachedFoldFits :
                /\ i < j
                /\ trace[j].key = trace[i].key
                /\ trace[j].kind = "cache loaded"
                /\ trace[j].C = C_OPTIONS[4]

\* C10: when the script has exited, normally or by an error raised in
\* grid.fit, the temporary cache directory is gone and holds no entry.
C10_CacheDeletedAtExit ==
    pc \in {"done", "raised"} => (cachedir # "exists" /\ cache = {})

(***************************************************************************)
(* plot_rbm_logistic_classification: nudge_dataset                         *)
(***************************************************************************)
\* The images are 8x8 (x.reshape((8, 8))).
Side == 8

Pixels == 1..(Side * Side)

RowOf(idx) == ((idx - 1) \div Side) + 1

ColOf(idx) == ((idx - 1) % Side) + 1

direction_vectors ==
    << << <<0, 1, 0>>,
          <<0, 0, 0>>,
          <<0, 0, 0>> >>,
       << <<0, 0, 0>>,
          <<1, 0, 0>>,
          <<0, 0, 0>> >>,
       << <<0, 0, 0>>,
          <<0, 0, 1>>,
          <<0, 0, 0>> >>,
       << <<0, 0, 0>>,
          <<0, 0, 0>>,
          <<0, 1, 0>> >> >>

\* Variant of Pixel for mode='wrap': indices past the border wrap around.
PixelWrap(x, r, c) == x[((r - 1) % Side) * Side + ((c - 1) % Side) + 1]

\* x.reshape((8, 8))[r, c] as convolve reads it with mode='constant':
\* the image is extended with cval = 0 past its border.
Pixel(x, r, c) ==
    IF r \in 1..Side /\ c \in 1..Side THEN x[(r - 1) * Side + c] ELSE 0

\* One term of the convolution sum at (r, c): kernel entry (a, b)
\* multiplies the input at (r - (a - 2), c - (b - 2)).
KernelTerm(x, weights, r, c, a, b) ==
    IF weights[a][b] = 0 THEN 0
    ELSE weights[a][b] * Pixel(x, r - (a - 2), c - (b - 2))

\* The convolution sum over the 3x3 kernel.
KernelSum(x, weights, r, c) ==
      KernelTerm(x, weights, r, c, 1, 1) + KernelTerm(x, weights, r, c, 1, 2)
    + KernelTerm(x, weights, r, c, 1, 3) + KernelTerm(x, weights, r, c, 2, 1)
    + KernelTerm(x, weights, r, c, 2, 2) + KernelTerm(x, weights, r, c, 2, 3)
    + KernelTerm(x, weights, r, c, 3, 1) + KernelTerm(x, weights, r, c, 3, 2)
    + KernelTerm(x, weights, r, c, 3, 3)

\* scipy.ndimage.convolve(x.reshape((8, 8)), mode='constant', weights=w)
convolve(x, weights) ==
    [idx \in Pixels |-> KernelSum(x, weights, RowOf(idx), ColOf(idx))]

\* shift = lambda x, w: convolve(...).ravel(); the image stays flattened.
shift(x, weights) == convolve(x, weights)

\* np.apply_along_axis(shift, 1, X, vector): every row on its own.
apply_along_axis(M, vector) == [i \in DOMAIN M |-> shift(M[i], vector)]

\* np.concatenate of a list of arrays along axis 0.
RECURSIVE concatenate(_)
concatenate(arrays) ==
    IF arrays = <<>> THEN <<>>
    ELSE Head(arrays) \o concatenate(Tail(arrays))

\* Variant of nudge_dataset that repeats every label 5 times in a row
\* (np.repeat) instead of repeating the whole label vector.
nudge_dataset_repeat(M, T) ==
    [X |-> concatenate(<<M>> \o
               [k \in DOMAIN direction_vectors |->
                   apply_along_axis(M, direction_vectors[k])]),
     Y |-> [j \in 1..(5 * Len(T)) |-> T[((j - 1) \div 5) + 1]]]

nudge_dataset(M, T) ==
    [X |-> concatenate(<<M>> \o
               [k \in DOMAIN direction_vectors |->
                   apply_along_axis(M, direction_vectors[k])]),
     Y |-> concatenate([k \in 1..5 |-> T])]

(***************************************************************************)
(* plot_rbm_logistic_classification: the script                            *)
(***************************************************************************)
\* Bound on the number of images of the data set.
MaxN == 2

\* Bound on the value of a pixel.
MaxPix == 1

Labels == {0, 1}

\* The non-zero pixels a data set of n images can have: none, or one
\* pixel of one image with a value up to MaxPix.  The records are
\* [image, pixel, value]; convolve is linear, so these images span the
\* behaviour of shift.
LitChoices(n) ==
    {[image |-> 0, pixel |-> 0, value |-> 0]} \cup
    [image : 1..n, pixel : Pixels, value : 1..MaxPix]

\* The data set with n images whose only non-zero pixel is `lit`.
DataWith(n, lit) ==
    [i \in 1..n |->
        [p \in Pixels |->
            IF lit.image = i /\ lit.pixel = p THEN lit.value ELSE 0]]

\* digits = datasets.load_digits(); X = np.asarray(digits.data, 'float32')
InitRBM ==
    /\ pc = "loaded"
    /\ \E n \in 1..MaxN :
          \E lit \in LitChoices(n) :
             \E t \in [1..n -> Labels] :
                digits = [data |-> DataWith(n, lit), target |-> t]
    /\ X = digits.data
    /\ Y = digits.target
    /\ ind_train = {}
    /\ ind_test = {}
    /\ IdleGrid /\ IdleMissing /\ IdleBayes /\ IdleSelector
    /\ IdleExtractor /\ IdleExercise /\ IdleUnion /\ IdleScale /\ IdleJobs

\* X, Y = nudge_dataset(X, digits.target)
Nudge ==
    /\ pc = "loaded"
    /\ LET nudged == nudge_dataset(X, digits.target)
       IN  X' = nudged.X /\ Y' = nudged.Y
    /\ pc' = "nudged"
    /\ UNCHANGED <<digits, ind_train, ind_test>>
    /\ UNCHANGED notRbmVars

\* ceil(0.2 * n) and floor(0.8 * n)
NTest(n) == (2 * n + 9) \div 10

NTrain(n) == (8 * n) \div 10

\* train_test_split(X, Y, test_size=0.2, random_state=0): a permutation of
\* the rows; its first n_test rows are the test set, the next n_train the
\* training set.
Split ==
    /\ pc = "nudged"
    /\ \E test \in SUBSET (1..Len(X)) :
          /\ Cardinality(test) = NTest(Len(X))
          /\ \E train \in SUBSET ((1..Len(X)) \ test) :
                /\ Cardinality(train) = NTrain(Len(X))
                /\ ind_test' = test
                /\ ind_train' = train
    /\ pc' = "split"
    /\ UNCHANGED <<digits, X, Y>>
    /\ UNCHANGED notRbmVars

NextNudge == Nudge

SpecNudge == InitRBM /\ [][NextNudge]_vars

NextRBM ==
    \/ Nudge
    \/ Split

SpecRBM == InitRBM /\ [][NextRBM]_vars

(***************************************************************************)
(* plot_rbm_logistic_classification: properties                            *)
(***************************************************************************)
\* Number of images loaded.
NImages == Len(digits.data)

\* C3: nudge_dataset returns a data set 5 times bigger; its first n rows
\* are the input unchanged, and in every block k of n rows, row i carries
\* the label of input row i and is computed from input row i alone.
C3_FiveBlocksRowByRow ==
    pc = "nudged" =>
        /\ Len(X) = 5 * NImages
        /\ Len(Y) = 5 * NImages
        /\ \A i \in 1..NImages : X[i] = digits.data[i]
        /\ \A k \in 0..4 : \A i \in 1..NImages :
              /\ Y[k * NImages + i] = digits.target[i]
              /\ X[k * NImages + i] =
                    IF k = 0 THEN digits.data[i]
                    ELSE shift(digits.data[i], direction_vectors[k])

\* C3 witness: two images with different labels have been nudged, and the
\* second one is not blank.
C3_Witness ==
    /\ pc = "nudged"
    /\ NImages = 2
    /\ digits.target[1] # digits.target[2]
    /\ \E p \in Pixels : digits.data[2][p] # 0

\* The move of each appended block as (rows down, columns right): the
\* blocks move the image up, left, right and down.
BlockMove == << <<-1, 0>>, <<0, -1>>, <<0, 1>>, <<1, 0>> >>

\* The image x moved by d: pixel (r, c) shows what x had at (r, c) - d, and
\* 0 where that falls outside the image.
Moved(x, d) ==
    [idx \in Pixels |->
        LET r == RowOf(idx) - d[1]
            c == ColOf(idx) - d[2]
        IN  IF r >= 1 /\ r <= Side /\ c >= 1 /\ c <= Side
            THEN x[(r - 1) * Side + c]
            ELSE 0]

\* C4: the four appended blocks are the input images moved by exactly one
\* pixel in four distinct directions (left, right, down, up); the vacated
\* border is 0 and what is pushed past the border is dropped.
C4_BlocksAreOnePixelMoves ==
    /\ Range(BlockMove) = {<<0, -1>>, <<0, 1>>, <<1, 0>>, <<-1, 0>>}
    /\ pc = "nudged" =>
          \A k \in 1..4 : \A i \in 1..NImages :
              X[k * NImages + i] = Moved(digits.data[i], BlockMove[k])

\* C4 witness: an image lit in its top left corner has been nudged; moving
\* it up or left pushes the pixel past the border.
C4_Witness ==
    /\ pc = "nudged"
    /\ digits.data[1][1] # 0
    /\ \A p \in Pixels : X[NImages + 1][p] = 0
    /\ X[3 * NImages + 1][2] # 0

\* The block of a row of the nudged data set: 0 for the original images.
BlockOf(row) == (row - 1) \div NImages

SourceOf(row) == ((row - 1) % NImages) + 1

\* C5: every shifted image is in X_train, X_test holds original images
\* only, and no test image has a copy (shifted or not) in the training set.
C5_ShiftsOnlyInTrain ==
    pc = "split" =>
        /\ \A row \in 1..Len(X) : BlockOf(row) # 0 => row \in ind_train
        /\ \A row \in ind_test : BlockOf(row) = 0
        /\ \A t \in ind_test : \A r \in ind_train :
              SourceOf(t) # SourceOf(r)

(***************************************************************************)
(* plot_missing_values: the script                                         *)
(***************************************************************************)
\* Bounds on the shape of the data set.
MaxSamples == 4

MaxFeatures == 2

\* The marker passed to the imputer as missing_values.
missing_marker == 0

\* The data sets the script can load: every entry is 1, except the entries
\* of `zeros`, which are 0 in the data itself.
FullWith(n, f, zeros) ==
    [i \in 1..n |-> [j \in 1..f |-> IF <<i, j>> \in zeros THEN 0 ELSE 1]]

\* int(np.floor(n_samples * missing_rate)) with missing_rate = 0.75
n_missing_samples(n) == (3 * n) \div 4

\* The number of True entries of a mask.
CountTrue(mask) == Cardinality({i \in DOMAIN mask : mask[i]})

\* np.where(mask)[0]: the indices of the True entries, ascending.
RECURSIVE Where(_, _)
Where(mask, from) ==
    IF from > Len(mask) THEN <<>>
    ELSE IF mask[from] THEN <<from>> \o Where(mask, from + 1)
                       ELSE Where(mask, from + 1)

InitMissing ==
    /\ pc = "loaded_boston"
    /\ \E n \in 1..MaxSamples : \E f \in 1..MaxFeatures :
          \E zeros \in {{}} \cup {{z} : z \in (1..n) \X (1..f)} :
             X_full = FullWith(n, f, zeros)
    /\ missing_samples = <<>>
    /\ missing_features = <<>>
    /\ X_missing = <<>>
    /\ IdleGrid /\ IdleRBM /\ IdleBayes /\ IdleSelector /\ IdleExtractor
    /\ IdleExercise /\ IdleUnion /\ IdleScale /\ IdleJobs

\* missing_samples = np.hstack((np.zeros(n - m, bool), np.ones(m, bool)))
Hstack ==
    /\ pc = "loaded_boston"
    /\ LET n == Len(X_full)
           m == n_missing_samples(n)
       IN  missing_samples' = [i \in 1..n |-> i > n - m]
    /\ pc' = "hstacked"
    /\ UNCHANGED <<X_full, missing_features, X_missing>>
    /\ UNCHANGED notMissingVars

\* rng.shuffle(missing_samples): any permutation of the mask.
Shuffle ==
    /\ pc = "hstacked"
    /\ \E mask \in [1..Len(missing_samples) -> BOOLEAN] :
          /\ CountTrue(mask) = CountTrue(missing_samples)
          /\ missing_samples' = mask
    /\ pc' = "shuffled"
    /\ UNCHANGED <<X_full, missing_features, X_missing>>
    /\ UNCHANGED notMissingVars

\* missing_features = rng.randint(0, n_features, n_missing_samples)
Randint ==
    /\ pc = "shuffled"
    /\ \E feats \in [1..n_missing_samples(Len(X_full)) ->
                        0..(Len(X_full[1]) - 1)] :
          missing_features' = feats
    /\ pc' = "drawn"
    /\ UNCHANGED <<X_full, missing_samples, X_missing>>
    /\ UNCHANGED notMissingVars

\* X_missing = X_full.copy()
\* X_missing[np.where(missing_samples)[0], missing_features] = 0
AddMissing ==
    /\ pc = "drawn"
    /\ LET rows == Where(missing_samples, 1)
       IN  X_missing' =
              [i \in DOMAIN X_full |->
                  [j \in DOMAIN X_full[i] |->
                      IF \E k \in DOMAIN rows :
                            rows[k] = i /\ missing_features[k] + 1 = j
                      THEN missing_marker
                      ELSE X_full[i][j]]]
    /\ pc' = "missing_added"
    /\ UNCHANGED <<X_full, missing_samples, missing_features>>
    /\ UNCHANGED notMissingVars

NextMissing ==
    \/ Hstack
    \/ Shuffle
    \/ Randint
    \/ AddMissing

SpecMissing == InitMissing /\ [][NextMissing]_vars

\* The lines of a data set that hold the marker.
LinesWithMarker(M) ==
    {i \in DOMAIN M : \E j \in DOMAIN M[i] : M[i][j] = missing_marker}

\* C6: after the shuffle the mask has exactly floor(0.75 * n_samples) True
\* entries, and the lines of X_missing that contain the marker 0 are
\* exactly the lines the mask selects.
C6_MarkedLinesAreTheMask ==
    /\ pc \in {"shuffled", "drawn", "missing_added"} =>
          CountTrue(missing_samples) = (3 * Len(X_full)) \div 4
    /\ pc = "missing_added" =>
          LinesWithMarker(X_missing) =
              {i \in DOMAIN missing_samples : missing_samples[i]}

(***************************************************************************)
(* plot_bayesian_ridge: the ground-truth weights                           *)
(***************************************************************************)
\* Bounds standing for n_features = 100 and the 10 relevant features.
n_features == 4

n_relevant == 3

\* The values stats.norm.rvs can return; it returns 0 with probability 0.
Draws == {-1, 1}

\* w = np.zeros(n_features)
InitBayes ==
    /\ pc = "zeros"
    /\ w = [j \in 1..n_features |-> 0]
    /\ relevant_features = <<>>
    /\ next_i = 0
    /\ IdleGrid /\ IdleRBM /\ IdleMissing /\ IdleSelector /\ IdleExtractor
    /\ IdleExercise /\ IdleUnion /\ IdleScale /\ IdleJobs

\* relevant_features = np.random.randint(0, n_features, 10)
RandintRelevant ==
    /\ pc = "zeros"
    /\ \E r \in [1..n_relevant -> 0..(n_features - 1)] :
          relevant_features' = r
    /\ next_i' = 1
    /\ pc' = "loop"
    /\ UNCHANGED w
    /\ UNCHANGED notBayesVars

\* for i in relevant_features: w[i] = stats.norm.rvs(...)
AssignWeight ==
    /\ pc = "loop"
    /\ next_i <= Len(relevant_features)
    /\ \E v \in Draws :
          w' = [w EXCEPT ![relevant_features[next_i] + 1] = v]
    /\ next_i' = next_i + 1
    /\ UNCHANGED <<pc, relevant_features>>
    /\ UNCHANGED notBayesVars

\* The loop is exhausted.
EndLoop ==
    /\ pc = "loop"
    /\ next_i > Len(relevant_features)
    /\ pc' = "weights_done"
    /\ UNCHANGED <<w, relevant_features, next_i>>
    /\ UNCHANGED notBayesVars

NextBayes ==
    \/ RandintRelevant
    \/ AssignWeight
    \/ EndLoop

SpecBayes == InitBayes /\ [][NextBayes]_vars

\* C7: after the assignment loop exactly 10 entries of w hold a draw from
\* the prior and the other n_features - 10 entries are 0.
C7_ExactlyTenWeights ==
    pc = "weights_done" =>
        /\ Cardinality({j \in DOMAIN w : w[j] # 0}) = n_relevant
        /\ Cardinality({j \in DOMAIN w : w[j] = 0}) = n_features - n_relevant

(***************************************************************************)
(* hetero_feature_union: ItemSelector                                      *)
(***************************************************************************)
\* Bounds on the collections handed to the selector.
MaxItems == 2

MaxItemValue == 1

\* The keys of the docstring's example, data = {'a': [...], 'b': [...]}.
KeyPool == {"a", "b"}

\* The collections: a dict of lists with one list of n samples per key.
Collections ==
    UNION {[keys -> [1..n -> 0..MaxItemValue]] :
              keys \in (SUBSET KeyPool) \ {{}}, n \in 0..MaxItems}

\* Bound on the number of fit calls before the transform.
MaxFits == 2

\* ItemSelector.__init__(self, key)
ItemSelector_init(key) == [key |-> key]

\* Variant of fit that remembers a key of the collection it is fitted on.
ItemSelector_fit_rekey(self, x) ==
    [self EXCEPT !.key = CHOOSE k \in DOMAIN x : TRUE]

\* ItemSelector.fit(self, x, y=None): return self
ItemSelector_fit(self, x) == self

\* ItemSelector.transform(self, data_dict): return data_dict[self.key]
ItemSelector_transform(self, data) == data[self.key]

InitSelector ==
    /\ pc = "constructed"
    /\ \E key \in KeyPool :
          /\ ctor_key = key
          /\ selector = ItemSelector_init(key)
    /\ n_fits = 0
    /\ data_dict = <<>>
    /\ selected = <<>>
    /\ IdleGrid /\ IdleRBM /\ IdleMissing /\ IdleBayes /\ IdleExtractor
    /\ IdleExercise /\ IdleUnion /\ IdleScale /\ IdleJobs

\* selector.fit(x)
SelectorFit ==
    /\ pc = "constructed"
    /\ n_fits < MaxFits
    /\ \E x \in Collections : selector' = ItemSelector_fit(selector, x)
    /\ n_fits' = n_fits + 1
    /\ UNCHANGED <<pc, ctor_key, data_dict, selected>>
    /\ UNCHANGED notSelectorVars

\* selector.transform(data) for a collection that has the key; a missing
\* key raises KeyError.
SelectorTransform ==
    /\ pc = "constructed"
    /\ \E data \in Collections :
          /\ selector.key \in DOMAIN data
          /\ data_dict' = data
          /\ selected' = ItemSelector_transform(selector, data)
    /\ pc' = "transformed"
    /\ UNCHANGED <<selector, ctor_key, n_fits>>
    /\ UNCHANGED notSelectorVars

NextSelector ==
    \/ SelectorFit
    \/ SelectorTransform

SpecSelector == InitSelector /\ [][NextSelector]_vars

\* C8: ItemSelector(key).transform(data) returns exactly data[key] for
\* every collection that has the key, whatever was passed to fit before.
C8_TransformReturnsItem ==
    pc = "transformed" =>
        /\ ctor_key \in DOMAIN data_dict
        /\ selected = data_dict[ctor_key]
        /\ Len(selected) = Len(data_dict[ctor_key])

\* C8 witness: after two fits the selector has picked its key out of a
\* collection with two different lists.
C8_Witness ==
    /\ pc = "transformed"
    /\ n_fits = MaxFits
    /\ DOMAIN data_dict = KeyPool
    /\ data_dict["a"] # data_dict["b"]
    /\ Len(selected) = MaxItems

(***************************************************************************)
(* hetero_feature_union: SubjectBodyExtractor                              *)
(***************************************************************************)
\* A string is a sequence of characters.  "S" stands for the prefix
\* 'Subject:', ">" opens a quoted line, "a" is any other character.
NL == "\n"

Alphabet == {"S", NL, "a", ">"}

prefix == <<"S">>

\* str.startswith
startswith(line, pre) ==
    Len(line) >= Len(pre) /\ SubSeq(line, 1, Len(pre)) = pre

\* The first position at or after `from` where `sep` occurs in text, or 0.
RECURSIVE Find(_, _, _)
Find(text, sep, from) ==
    IF from + Len(sep) - 1 > Len(text) THEN 0
    ELSE IF SubSeq(text, from, from + Len(sep) - 1) = sep THEN from
    ELSE Find(text, sep, from + 1)

\* str.partition(sep): (head, sep, tail) at the first occurrence of sep,
\* and (text, '', '') when there is none.
partition(text, sep) ==
    LET at == Find(text, sep, 1)
    IN  IF at = 0 THEN <<text, <<>>, <<>>>>
        ELSE <<SubSeq(text, 1, at - 1), sep,
               SubSeq(text, at + Len(sep), Len(text))>>

\* str.split('\n'): the lines, at least one.
RECURSIVE split(_)
split(text) ==
    LET at == Find(text, <<NL>>, 1)
    IN  IF at = 0 THEN <<text>>
        ELSE <<SubSeq(text, 1, at - 1)>> \o
             split(SubSeq(text, at + 1, Len(text)))

\* '\n'.join(lines)
RECURSIVE join(_)
join(lines) ==
    IF lines = <<>> THEN <<>>
    ELSE IF Len(lines) = 1 THEN lines[1]
    ELSE lines[1] \o <<NL>> \o join(Tail(lines))

\* str.strip(): the only white space of the alphabet is the newline.
RECURSIVE strip(_)
strip(text) ==
    IF text = <<>> THEN text
    ELSE IF Head(text) = NL THEN strip(Tail(text))
    ELSE IF text[Len(text)] = NL THEN strip(SubSeq(text, 1, Len(text) - 1))
    ELSE text

\* strip_newsgroup_footer: cut the text at its last blank line, unless
\* that is the first line.
strip_newsgroup_footer(text) ==
    LET lines == split(strip(text))
        blank == {j \in DOMAIN lines : strip(lines[j]) = <<>>}
        line_num == IF blank = {} THEN 0 ELSE SetMax(blank) - 1
    IN  IF line_num > 0 THEN join(SubSeq(lines, 1, line_num)) ELSE text

\* The sequence without the elements at the positions in `drop`.
RECURSIVE Without(_, _, _)
Without(lines, drop, from) ==
    IF from > Len(lines) THEN <<>>
    ELSE IF from \in drop THEN Without(lines, drop, from + 1)
    ELSE <<lines[from]>> \o Without(lines, drop, from + 1)

\* strip_newsgroup_quoting: drop the lines that quote another post.
strip_newsgroup_quoting(text) ==
    LET lines == split(text)
    IN  join(Without(lines,
                     {j \in DOMAIN lines : startswith(lines[j], <<">">>)}, 1))

\* for line in headers.split('\n'): if line.startswith(prefix):
\*     sub = line[len(prefix):]; break
RECURSIVE SubjectLine(_, _)
SubjectLine(lines, sub) ==
    IF lines = <<>> THEN sub
    ELSE IF startswith(Head(lines), prefix)
         THEN SubSeq(Head(lines), Len(prefix) + 1, Len(Head(lines)))
         ELSE SubjectLine(Tail(lines), sub)

\* Variant of LoopBody without `sub = ''`: a post without a subject line
\* keeps the subject of the post before it.
LoopBodyNoReset(st, i, text) ==
    LET parts == partition(text, <<NL, NL>>)
        bod   == strip_newsgroup_quoting(strip_newsgroup_footer(parts[3]))
        sub   == SubjectLine(split(parts[1]), st.sub)
    IN  [features |-> [st.features EXCEPT !.body[i] = bod,
                                          !.subject[i] = sub],
         sub |-> sub]

\* One iteration of `for i, text in enumerate(posts)`; the state of the
\* loop is the array being filled and the local variable sub.
LoopBody(st, i, text) ==
    LET parts == partition(text, <<NL, NL>>)
        bod   == strip_newsgroup_quoting(strip_newsgroup_footer(parts[3]))
        sub   == SubjectLine(split(parts[1]), <<>>)
    IN  [features |-> [st.features EXCEPT !.body[i] = bod,
                                          !.subject[i] = sub],
         sub |-> sub]

RECURSIVE Loop(_, _, _)
Loop(st, texts, i) ==
    IF i > Len(texts) THEN st
    ELSE Loop(LoopBody(st, i, texts[i]), texts, i + 1)

\* np.recarray(shape=(len(posts),), dtype=[('subject', object),
\* ('body', object)]): object fields start as None.
recarray(n) ==
    [subject |-> [i \in 1..n |-> "None"], body |-> [i \in 1..n |-> "None"]]

\* SubjectBodyExtractor.transform(self, posts)
SubjectBodyExtractor_transform(texts) ==
    Loop([features |-> recarray(Len(texts)), sub |-> <<>>], texts, 1).features

\* Bounds on the posts: their number and their total length.
MaxPosts == 2

MaxChars == 5

\* The ways to cut a text of length c into n consecutive posts: the end
\* position of each post, non-decreasing, the last one being c.
Cuts(c, n) ==
    {cut \in [1..n -> 0..c] :
        /\ cut[n] = c
        /\ \A k \in 1..(n - 1) : cut[k] <= cut[k + 1]}

PostsOf(text, cut) ==
    [k \in DOMAIN cut |->
        SubSeq(text, (IF k = 1 THEN 0 ELSE cut[k - 1]) + 1, cut[k])]

InitExtractor ==
    /\ pc = "extractor"
    /\ \/ posts = <<>>
       \/ \E c \in 0..MaxChars : \E n \in 1..MaxPosts :
             \E text \in [1..c -> Alphabet] : \E cut \in Cuts(c, n) :
                posts = PostsOf(text, cut)
    /\ features = <<>>
    /\ IdleGrid /\ IdleRBM /\ IdleMissing /\ IdleBayes /\ IdleSelector
    /\ IdleExercise /\ IdleUnion /\ IdleScale /\ IdleJobs

\* features = SubjectBodyExtractor().transform(posts)
ExtractorTransform ==
    /\ pc = "extractor"
    /\ features' = SubjectBodyExtractor_transform(posts)
    /\ pc' = "extracted"
    /\ UNCHANGED posts
    /\ UNCHANGED notExtractorVars

NextExtractor == ExtractorTransform

SpecExtractor == InitExtractor /\ [][NextExtractor]_vars

\* What the extractor reads out of one post.
SubjectOf(text) == SubjectLine(split(partition(text, <<NL, NL>>)[1]), <<>>)

BodyOf(text) ==
    strip_newsgroup_quoting(
        strip_newsgroup_footer(partition(text, <<NL, NL>>)[3]))

\* C9: the extractor returns exactly the fields 'subject' and 'body', each
\* with one entry per post, and entry i of both is computed from posts[i]
\* alone: the order is kept and no post is dropped or duplicated.
C9_OneEntryPerPost ==
    pc = "extracted" =>
        /\ DOMAIN features = {"subject", "body"}
        /\ Len(features.subject) = Len(posts)
        /\ Len(features.body) = Len(posts)
        /\ \A i \in DOMAIN posts :
              /\ features.subject[i] = SubjectOf(posts[i])
              /\ features.body[i] = BodyOf(posts[i])

\* C9 witness: two posts were extracted, the first with a subject and no
\* body, the second with a body and no subject.
C9_Witness ==
    /\ pc = "extracted"
    /\ Len(posts) = 2
    /\ features.subject[1] # <<>> /\ features.body[1] = <<>>
    /\ features.subject[2] = <<>> /\ features.body[2] # <<>>

(***************************************************************************)
(* plot_compare_reduction: GridSearchCV(..., n_jobs=1) as Parallel tasks   *)
(***************************************************************************)
\* GridSearchCV(pipe, cv=3, n_jobs=1, param_grid=param_grid), both searches.
n_jobs == 1

\* Variant of WorkerFree that dispatches whatever is in flight.
WorkerFreeAlways(in_flight) == TRUE

\* Parallel(n_jobs): a task is dispatched when fewer than n_jobs are in
\* flight.
WorkerFree(in_flight) == Cardinality(in_flight) < n_jobs

notJobsVars == <<rbmVars, missingVars, bayesVars, selectorVars,
                 extractorVars, scaleVars, unionVars, exerciseVars>>

\* Parallel(n_jobs) takes the next task of product(candidates, splits) when
\* a worker is free; the task starts Pipeline.fit, which looks its
\* transformer up in the cache and prints the message.
Dispatch ==
    /\ pc \in {"grid_fit", "cached_fit"}
    /\ cand <= n_candidates
    /\ WorkerFree(running)
    /\ LET pipe == SetParams(candidate_params[cand])
           key  == CacheKey(pipe, TrainIdx(fold))
           hit  == SearchOf(pc) = "cached" /\ key \in cache
       IN  /\ trace' = Append(trace,
                   [search |-> SearchOf(pc), cand |-> cand, fold |-> fold,
                    kind   |-> IF hit THEN "cache loaded" ELSE "Calling",
                    key    |-> key,
                    Xt     |-> IF hit THEN Loaded(key)
                                      ELSE fit_transform(pipe.reduce_dim,
                                                         TrainIdx(fold)),
                    C      |-> pipe.classify.C])
           /\ running' = running \cup {[cand |-> cand, fold |-> fold,
                                        key |-> key]}
    /\ IF fold < cv
       THEN fold' = fold + 1 /\ cand' = cand
       ELSE fold' = 1 /\ cand' = cand + 1
    /\ UNCHANGED <<pc, oracle, cachedir, cache, cv_results, mean_scores>>
    /\ UNCHANGED notJobsVars

\* A task returns: with memory its fitted transformer is in the cache.
Complete ==
    /\ pc \in {"grid_fit", "cached_fit"}
    /\ \E t \in running :
         /\ running' = running \ {t}
         /\ cache' = IF SearchOf(pc) = "cached" THEN cache \cup {t.key}
                                                ELSE cache
    /\ UNCHANGED <<pc, oracle, cand, fold, cachedir, trace, cv_results,
                   mean_scores>>
    /\ UNCHANGED notJobsVars

\* Parallel returns when the iterator is exhausted and every task is back.
Collect ==
    /\ pc \in {"grid_fit", "cached_fit"}
    /\ cand > n_candidates
    /\ running = {}
    /\ cv_results' = [i \in 1..n_candidates |-> oracle[candidate_params[i]]]
    /\ pc' = IF pc = "grid_fit" THEN "grid_refit" ELSE "cached_refit"
    /\ UNCHANGED <<oracle, cand, fold, cachedir, cache, trace, mean_scores,
                   running>>
    /\ UNCHANGED notJobsVars

NextJobs ==
    \/ Dispatch
    \/ Complete
    \/ Collect
    \/ Refit
    \/ MeanScores
    \/ Mkdtemp
    \/ Rmtree
    \/ FitRaises

SpecJobs == InitGrid /\ [][NextJobs]_vars

\* C11: with n_jobs=1 at most one (candidate, split) fit is in progress at
\* any time, so no two fits of one cache key overlap, and the fits start in
\* the order of product(candidates, splits): the task in flight is the last
\* one started and it follows the one started before it.
C11_OneFitAtATime ==
    /\ Cardinality(running) <= 1
    /\ \A s, t \in running : s # t => s.key # t.key
    /\ \A t \in running :
         /\ trace[Len(trace)].cand = t.cand
         /\ trace[Len(trace)].fold = t.fold
    /\ LET n == Len(trace)
       IN  (n >= 2 /\ trace[n].fold # 0 /\ trace[n - 1].fold # 0
                   /\ trace[n].search = trace[n - 1].search)
           => \/ trace[n - 1].cand < trace[n].cand
              \/ /\ trace[n - 1].cand = trace[n].cand
                 /\ trace[n - 1].fold < trace[n].fold

\* A fit of the cached search is in progress for a key that is already in
\* the cache.
C11_Witness ==
    /\ pc = "cached_fit"
    /\ \E t \in running : t.key \in cache

(***************************************************************************)
(* plot_rbm_logistic_classification: the 0-1 scaling                       *)
(***************************************************************************)
\* Bounds of the matrices given to the scaling.
MaxRows == 2

MaxCols == 2

MaxVal == 2

\* The 0.0001 of the scaling is 1 / EpsInv.
EpsInv == 10000

\* np.min(X, 0)[c] and np.max(X, 0)[c]
np_min(M, c) == CHOOSE m \in {M[r][c] : r \in DOMAIN M} :
                    \A r \in DOMAIN M : m <= M[r][c]

np_max(M, c) == CHOOSE m \in {M[r][c] : r \in DOMAIN M} :
                    \A r \in DOMAIN M : M[r][c] <= m

\* (X - np.min(X, 0)) / (np.max(X, 0) + 0.0001): every entry is the exact
\* quotient num / den.
scaling(M) ==
    [r \in DOMAIN M |-> [c \in DOMAIN M[r] |->
        [num |-> EpsInv * (M[r][c] - np_min(M, c)),
         den |-> EpsInv * np_max(M, c) + 1]]]

notScaleVars == <<gridVars, missingVars, bayesVars, selectorVars,
                  extractorVars, jobsVars, unionVars, exerciseVars>>

\* The non-negative matrices of at most MaxRows x MaxCols.
InitScale ==
    /\ pc = "nudged"
    /\ \E n \in 1..MaxRows : \E m \in 1..MaxCols :
          X \in [1..n -> [1..m -> 0..MaxVal]]
    /\ X_scaled = <<>>
    /\ digits = <<>> /\ Y = <<>> /\ ind_train = {} /\ ind_test = {}
    /\ IdleGrid /\ IdleMissing /\ IdleBayes /\ IdleSelector
    /\ IdleExtractor /\ IdleExercise /\ IdleUnion /\ IdleJobs

\* X = (X - np.min(X, 0)) / (np.max(X, 0) + 0.0001)  # 0-1 scaling
Scale ==
    /\ pc = "nudged"
    /\ X_scaled' = scaling(X)
    /\ pc' = "scaled"
    /\ UNCHANGED <<digits, X, Y, ind_train, ind_test>>
    /\ UNCHANGED notScaleVars

NextScale == Scale

SpecScale == InitScale /\ [][NextScale]_vars

\* The columns of the scaled matrix.
ScaledCols == DOMAIN X[1]

\* q is within 0.0001 of 1 from below: 1 - q <= 1 / EpsInv.
NearOne(q) ==
    /\ q.num <= q.den
    /\ EpsInv * (q.den - q.num) <= q.den

\* C12: every entry of the scaled matrix is in [0, 1], the minimum of each
\* column is mapped to 0 and the maximum of each non-constant column is
\* mapped to approximately 1.
C12_MaxMappedToOne ==
    pc = "scaled" =>
        \A c \in ScaledCols :
            /\ \A r \in DOMAIN X :
                 /\ 0 <= X_scaled[r][c].num
                 /\ X_scaled[r][c].num <= X_scaled[r][c].den
                 /\ X[r][c] = np_min(X, c) => X_scaled[r][c].num = 0
            /\ np_min(X, c) # np_max(X, c) =>
                 \A r \in DOMAIN X :
                    X[r][c] = np_max(X, c) => NearOne(X_scaled[r][c])

(***************************************************************************)
(* hetero_feature_union: the FeatureUnion of the pipeline                  *)
(***************************************************************************)
\* Variant of transformer_list whose last branch selects a field 'text'.
transformer_list_text ==
    << [name |-> "subject",    selector |-> ItemSelector_init("subject")],
       [name |-> "body_bow",   selector |-> ItemSelector_init("body")],
       [name |-> "body_stats", selector |-> ItemSelector_init("text")] >>

\* transformer_list=[('subject', Pipeline([('selector', ItemSelector(...
\* Each branch is a Pipeline whose first step is an ItemSelector.
transformer_list ==
    << [name |-> "subject",    selector |-> ItemSelector_init("subject")],
       [name |-> "body_bow",   selector |-> ItemSelector_init("body")],
       [name |-> "body_stats", selector |-> ItemSelector_init("body")] >>

\* transformer_weights={'subject': 0.8, 'body_bow': 0.5, 'body_stats': 1.0},
\* in tenths.
transformer_weights == [subject |-> 8, body_bow |-> 5, body_stats |-> 10]

\* FeatureUnion._iter: transformer_weights.get(name); <<>> stands for the
\* None of a name without a weight.
get_weight(name) ==
    IF name \in DOMAIN transformer_weights THEN <<transformer_weights[name]>>
                                           ELSE <<>>

notUnionVars == <<gridVars, rbmVars, missingVars, bayesVars, selectorVars,
                  jobsVars, scaleVars, exerciseVars>>

\* FeatureUnion.fit_transform(features): every branch selects its field of
\* the extractor's output and its block is multiplied by its weight; a key
\* that is not a field of the recarray raises.
UnionTransform ==
    /\ pc = "extracted"
    /\ IF \A i \in DOMAIN transformer_list :
             transformer_list[i].selector.key \in DOMAIN features
       THEN /\ union_out' =
                 [i \in DOMAIN transformer_list |->
                    [name   |-> transformer_list[i].name,
                     weight |-> get_weight(transformer_list[i].name),
                     Xt     |-> ItemSelector_transform(
                                    transformer_list[i].selector, features)]]
            /\ pc' = "union"
       ELSE /\ pc' = "KeyError"
            /\ UNCHANGED union_out
    /\ UNCHANGED <<posts, features>>
    /\ UNCHANGED notUnionVars

NextUnion ==
    \/ ExtractorTransform
    \/ UnionTransform

SpecUnion == InitExtractor /\ [][NextUnion]_vars

\* The names of the branches of the union.
BranchNames == {transformer_list[i].name : i \in DOMAIN transformer_list}

\* The branches that select field k.
BranchesReading(k) ==
    {i \in DOMAIN transformer_list : transformer_list[i].selector.key = k}

\* C13: the union has exactly three branches, one reading 'subject' and two
\* reading 'body'; the keys of transformer_weights are the names of
\* transformer_list; every ItemSelector key is a field of the extractor's
\* output, so the union never raises and stacks three weighted blocks, each
\* the field its branch names.
C13_ThreeWeightedBranches ==
    /\ Len(transformer_list) = 3
    /\ Cardinality(BranchNames) = 3
    /\ Cardinality(BranchesReading("subject")) = 1
    /\ Cardinality(BranchesReading("body")) = 2
    /\ DOMAIN transformer_weights = BranchNames
    /\ BranchNames = {"subject", "body_bow", "body_stats"}
    /\ pc # "KeyError"
    /\ pc \in {"extracted", "union"} =>
          \A i \in DOMAIN transformer_list :
             transformer_list[i].selector.key \in DOMAIN features
    /\ pc = "union" =>
          /\ Len(union_out) = 3
          /\ \A i \in DOMAIN union_out :
                /\ union_out[i].weight # <<>>
                /\ union_out[i].weight
                      = <<transformer_weights[union_out[i].name]>>
                /\ union_out[i].Xt = features[transformer_list[i].selector.key]
                /\ Len(union_out[i].Xt) = Len(posts)

\* The union stacked the blocks of a post whose subject and body differ.
C13_Witness ==
    /\ pc = "union"
    /\ Len(posts) >= 1
    /\ union_out[1].Xt[1] # union_out[2].Xt[1]
    /\ union_out[2].Xt = union_out[3].Xt

(***************************************************************************)
(* plot_compare_reduction: the output of the cached search                 *)
(***************************************************************************)
\* The fit requests of the cached search, refit included.
CachedFits == {i \in DOMAIN trace : trace[i].search = "cached"}

\* The requests of the cached search with the given message, made while
\* folds are evaluated, for the reducers in `classes`.
FoldMessages(kind, classes) ==
    {i \in CachedFoldFits :
        trace[i].kind = kind /\ trace[i].key.transformer.cls \in classes}

\* C14: in the cached search every distinct cache key is computed exactly
\* once and is never loaded before it was computed; when the search is over
\* its 109 fit requests are 28 computations (18 for PCA/NMF, 9 for
\* SelectKBest, 1 for the refit) and 81 cache loads (54 and 27).
C14_EveryKeyComputedOnce ==
    /\ LET n == Len(trace)
       IN  (n >= 1 /\ trace[n].search = "cached") =>
              LET before == {j \in CachedFits :
                                j < n /\ trace[j].key = trace[n].key}
              IN  IF trace[n].kind = "Calling"
                  THEN before = {}
                  ELSE \E j \in before : trace[j].kind = "Calling"
    /\ pc \in {"rmtree", "done"} =>
          /\ Cardinality(CachedFits) = 109
          /\ \A i \in CachedFits :
                Cardinality({j \in CachedFits :
                                /\ trace[j].key = trace[i].key
                                /\ trace[j].kind = "Calling"}) = 1
          /\ \A i \in CachedFits :
                trace[i].kind = "cache loaded" =>
                   \E j \in CachedFits :
                      /\ j < i
                      /\ trace[j].key = trace[i].key
                      /\ trace[j].kind = "Calling"
          /\ Cardinality({i \in CachedFits : trace[i].kind = "Calling"}) = 28
          /\ Cardinality({i \in CachedFits :
                             trace[i].kind = "cache loaded"}) = 81
          /\ Cardinality(FoldMessages("Calling", {"PCA(iterated_power=7)", "NMF()"})) = 18
          /\ Cardinality(FoldMessages("Calling", {"SelectKBest(chi2)"})) = 9
          /\ Cardinality(FoldMessages("cache loaded", {"PCA(iterated_power=7)", "NMF()"})) = 54
          /\ Cardinality(FoldMessages("cache loaded", {"SelectKBest(chi2)"})) = 27
          /\ \A i \in CachedFits \ CachedFoldFits : trace[i].kind = "Calling"
          /\ Cardinality(CachedFits \ CachedFoldFits) = 1

\* The script is over; the cached search loaded a transformer from the
\* cache and computed the transformer of its refit.
C14_Witness ==
    /\ pc = "done"
    /\ \E i \in CachedFoldFits : trace[i].kind = "cache loaded"
    /\ \E i \in CachedFits : trace[i].fold = 0 /\ trace[i].kind = "Calling"

\* The refit requests of a search.
RefitsOf(search) ==
    {i \in DOMAIN trace : trace[i].search = search /\ trace[i].fold = 0}

\* The fold evaluations of a search.
FoldFitsOf(search) ==
    {i \in DOMAIN trace : trace[i].search = search /\ trace[i].fold # 0}

\* Request i is the only refit of its search; the 108 fold evaluations of
\* the search precede it; it is trained on the full data set, which is the
\* training part of no split, and it is a computation.
RefitAfterAllFolds(i) ==
    LET search == trace[i].search
    IN  /\ RefitsOf(search) = {i}
        /\ Cardinality({j \in FoldFitsOf(search) : j < i}) = cv * n_candidates
        /\ cv * n_candidates = 108
        /\ \A j \in FoldFitsOf(search) : j < i
        /\ trace[i].key.X = AllSamples
        /\ \A f \in 1..cv : trace[i].key.X # TrainIdx(f)
        /\ \A j \in FoldFitsOf(search) : trace[j].key.X # trace[i].key.X
        /\ trace[i].kind = "Calling"
        /\ trace[i].key \notin {trace[j].key : j \in FoldFitsOf(search)}

\* C15: the refit of a search happens exactly once, after all 108 fold
\* evaluations of the search, on the full data set, which is the training
\* part of no split, so in the cached search it is a computation and not a
\* cache load.  A refit is examined when it is made; when a search is over
\* its requests are examined again and nothing follows its refit.
C15_RefitOnceOnFullData ==
    /\ LET n == Len(trace)
       IN  (n >= 1 /\ trace[n].fold = 0) => RefitAfterAllFolds(n)
    /\ pc \in {"grid_fit", "grid_refit"} => RefitsOf("plain") = {}
    /\ pc \in {"reshape", "mkdtemp"} =>
          /\ Cardinality(RefitsOf("plain")) = 1
          /\ \A i \in RefitsOf("plain") :
                i = Len(trace) /\ RefitAfterAllFolds(i)
    /\ pc \in {"cached_fit", "cached_refit"} => RefitsOf("cached") = {}
    /\ pc \in {"rmtree", "done"} =>
          /\ Cardinality(RefitsOf("plain")) = 1
          /\ Cardinality(RefitsOf("cached")) = 1
          /\ \A i \in RefitsOf("cached") :
                i = Len(trace) /\ RefitAfterAllFolds(i)

\* The cached search is over: its refit was computed although the reducer
\* with the same parameters had been fitted on a split before.
C15_Witness ==
    /\ pc = "rmtree"
    /\ \E i \in RefitsOf("cached") :
          /\ trace[i].kind = "Calling"
          /\ \E j \in FoldFitsOf("cached") :
                trace[j].key.transformer = trace[i].key.transformer

\* Number of fit requests the uncached search has made.
NPlain == Cardinality({i \in DOMAIN trace : trace[i].search = "plain"})

\* Request i of the cached search is request i - NPlain of the uncached
\* search: same candidate, same split, same C, same reducer and training
\* data, same transformed data handed to the classifier; the uncached
\* request fitted its reducer, and the cached one loaded it exactly when an
\* earlier request of the cached search had the same reducer and data.
SameRequest(i) ==
    LET k == i - NPlain
    IN  /\ k \in 1..NPlain
        /\ trace[k].search = "plain"
        /\ trace[k].cand = trace[i].cand
        /\ trace[k].fold = trace[i].fold
        /\ trace[k].C = trace[i].C
        /\ trace[k].key = trace[i].key
        /\ trace[k].Xt = trace[i].Xt
        /\ trace[k].kind = "Calling"
        /\ trace[i].kind = "cache loaded"
              <=> \E j \in CachedFits : j < i /\ trace[j].key = trace[i].key

NestedOnChosenReducer(i) ==
    LET p == candidate_params[trace[i].cand]
        t == trace[i].key.transformer
    IN  /\ t.cls = p.reduce_dim
        /\ t.cls # initial_pipe.reduce_dim.cls
        /\ t.name = p.nested
        /\ t.value = p.value
        /\ t.name \in ParamsOf(t.cls)
        /\ t.name = "n_components" <=>
              t.cls \in {"PCA(iterated_power=7)", "NMF()"}
        /\ t.name = "k" <=> t.cls = "SelectKBest(chi2)"

\* C17: for every candidate the nested parameter is applied to the reducer
\* chosen by the same candidate, after the step was replaced, and never to
\* the initial PCA(): n_components on PCA(iterated_power=7) and NMF(), k on
\* SelectKBest(chi2); no candidate sets a parameter its reducer lacks.
\* Every request is examined when it is made, and all of them when the
\* script is over.
C17_NestedParamOnChosenReducer ==
    /\ \A c \in 1..n_candidates :
          candidate_params[c].nested \in ParamsOf(candidate_params[c].reduce_dim)
    /\ Len(trace) >= 1 => NestedOnChosenReducer(Len(trace))
    /\ pc = "done" => \A i \in DOMAIN trace : NestedOnChosenReducer(i)

\* The script is over; a SelectKBest(chi2) was fitted with k and an NMF()
\* with n_components.
C17_Witness ==
    /\ pc = "done"
    /\ \E i \in DOMAIN trace :
          /\ trace[i].key.transformer.cls = "SelectKBest(chi2)"
          /\ trace[i].key.transformer.name = "k"
    /\ \E i \in DOMAIN trace :
          /\ trace[i].key.transformer.cls = "NMF()"
          /\ trace[i].key.transformer.name = "n_components"

\* The shape of flat.reshape(a, -1, c).
ReshapeShape(flat, a, c) == <<a, Len(flat) \div (a * c), c>>

\* The number of candidates each dict of param_grid yields.
GridSizes == [i \in DOMAIN param_grid |-> Len(GridOfDict(param_grid[i]))]

\* C18: param_grid yields exactly 36 candidates, 4 x 2 x 3 of the first
\* dict and 4 x 1 x 3 of the second; the reshape of the 36 scores has shape
\* (4, 3, 3) and uses every score; after max(axis=0) there are as many rows
\* of scores as reducer_labels has labels, so zip drops no label and no row.
C18_AsManyRowsAsLabels ==
    /\ n_candidates = 36
    /\ GridSizes = <<4 * 2 * 3, 4 * 1 * 3>>
    /\ Cardinality(ParamSet) = 36
    /\ cv_results # <<>> =>
          /\ Len(cv_results) = 36
          /\ ReshapeShape(cv_results, Len(C_OPTIONS), Len(N_FEATURES_OPTIONS))
                = <<4, 3, 3>>
          /\ 4 * 3 * 3 = Len(cv_results)
    /\ mean_scores # <<>> =>
          /\ Len(mean_scores) = Len(reducer_labels)
          /\ \A r \in DOMAIN mean_scores :
                Len(mean_scores[r]) = Len(N_FEATURES_OPTIONS)
          /\ Len(Zip(reducer_labels, mean_scores)) = Len(reducer_labels)
          /\ Len(Zip(reducer_labels, mean_scores)) = Len(mean_scores)
          /\ \A i \in DOMAIN reducer_labels :
                /\ Zip(reducer_labels, mean_scores)[i].label
                      = reducer_labels[i]
                /\ Zip(reducer_labels, mean_scores)[i].reducer_scores
                      = mean_scores[i]

\* The scores were reshaped and a row of the chart holds a high score.
C18_Witness ==
    /\ pc = "mkdtemp"
    /\ Len(mean_scores) = 3
    /\ \E r \in DOMAIN mean_scores : \E n \in DOMAIN mean_scores[r] :
          mean_scores[r][n] = 1

(***************************************************************************)
(* plot_digits_classification_exercise: the train / test slices            *)
(***************************************************************************)
\* Bound on the number of samples of the data set.
MaxDigits == 10

\* len(digits.data) of load_digits()
N_DIGITS == 1797

\* int(.9 * n): the double product is truncated towards zero; the double
\* .9 is not below 9/10, so the result is the integer part of 9n/10.
int_point9(n) == (9 * n) \div 10

\* s[:k]
SliceTo(s, k) == SubSeq(s, 1, k)

\* Variant of SliceFrom that starts one entry early.
SliceFromOverlap(s, k) == SubSeq(s, IF k = 0 THEN 1 ELSE k, Len(s))

\* s[k:]
SliceFrom(s, k) == SubSeq(s, k + 1, Len(s))

notExerciseVars == <<gridVars, rbmVars, missingVars, bayesVars,
                     selectorVars, extractorVars, jobsVars, scaleVars,
                     unionVars>>

\* digits = datasets.load_digits(); X_digits = digits.data;
\* y_digits = digits.target.  Sample i is named by its row number.
InitExercise ==
    /\ pc = "loaded_digits"
    /\ \E n \in 0..MaxDigits :
          /\ X_digits = [i \in 1..n |-> i]
          /\ y_digits \in [1..n -> Labels]
    /\ X_train = <<>> /\ y_train = <<>> /\ X_test = <<>> /\ y_test = <<>>
    /\ IdleGrid /\ IdleRBM /\ IdleMissing /\ IdleBayes /\ IdleSelector
    /\ IdleExtractor /\ IdleJobs /\ IdleScale /\ IdleUnion

\* n_samples = len(X_digits) and the four slices.
SliceDigits ==
    /\ pc = "loaded_digits"
    /\ LET n_samples == Len(X_digits)
       IN  /\ X_train' = SliceTo(X_digits, int_point9(n_samples))
           /\ y_train' = SliceTo(y_digits, int_point9(n_samples))
           /\ X_test'  = SliceFrom(X_digits, int_point9(n_samples))
           /\ y_test'  = SliceFrom(y_digits, int_point9(n_samples))
    /\ pc' = "sliced"
    /\ UNCHANGED <<X_digits, y_digits>>
    /\ UNCHANGED notExerciseVars

NextExercise == SliceDigits

SpecExercise == InitExercise /\ [][NextExercise]_vars

\* C19: the exercise cuts X and y at the same index int(.9 * n_samples):
\* the training set is the first int(.9 * n_samples) samples in order and
\* the test set is the rest in order, so the two are disjoint, together
\* they cover every sample exactly once, and every sample keeps its label;
\* for the 1797 digits the test set has 180 samples.
C19_TrainAndTestPartition ==
    /\ int_point9(N_DIGITS) = 1617
    /\ N_DIGITS - int_point9(N_DIGITS) = 180
    /\ pc = "sliced" =>
          LET n == Len(X_digits)
              k == int_point9(n)
          IN  /\ Len(X_train) = k /\ Len(y_train) = k
              /\ Len(X_test) = n - k /\ Len(y_test) = n - k
              /\ X_train \o X_test = X_digits
              /\ y_train \o y_test = y_digits
              /\ Range(X_train) \cap Range(X_test) = {}
              /\ Range(X_train) \cup Range(X_test) = Range(X_digits)
              /\ \A i \in 1..k :
                    X_train[i] = X_digits[i] /\ y_train[i] = y_digits[i]
              /\ \A j \in 1..(n - k) :
                    /\ X_test[j] = X_digits[k + j]
                    /\ y_test[j] = y_digits[k + j]

\* A data set was cut into a training set and a test set that are both
\* non-empty and hold both labels.
C19_Witness ==
    /\ pc = "sliced"
    /\ X_train # <<>> /\ X_test # <<>>
    /\ Range(y_train) = Labels
    /\ y_test[1] # y_train[Len(y_train)]

=============================================================================
